---- MODULE Spec2Model ----
(***************************************************************************)
(* Model of libvin/epa.py: ensure_latest (the conditional refresh of the   *)
(* cached EPA dataset) and get_epa_updates (the conditional request).      *)
(*                                                                         *)
(* The target directory is modelled at the level of directory entries and  *)
(* open files, because zipfile.extract opens its target with mode 'wb'     *)
(* (truncating the file in place) and os.rename moves the directory entry, *)
(* not the bytes: an open file follows its file to wherever the entry      *)
(* goes.  Every process runs ensure_latest step by step; every system call *)
(* of the function can fail, and a process can crash between any two steps.*)
(***************************************************************************)
EXTENDS Integers, Sequences, FiniteSets, TLC

VARIABLES
    remote,         \* the remote dataset: version, ETag length, archive
    live,           \* the file <target_dir>/vehicles.csv: [exists, data]
    tmpExists,      \* does <target_dir>/tmp exist
    tmpDir,         \* entry name -> the file <target_dir>/tmp/<name>: [exists, data]
    etagFile,       \* content of <target_dir>/vehicles.etag
    lmFile,         \* content of <target_dir>/vehicles.last_modified
    pc,             \* per process: position in ensure_latest
    etag,           \* per process: local etag
    last_modified,  \* per process: local last_modified
    response,       \* per process: the response of get_epa_updates
    tempFile,       \* per process: the mkstemp() file ("none", "empty", "body")
    name,           \* per process: the selected archive entry
    fd,             \* per process: the open extraction target [at, off]
    exc,            \* per process: exception in flight through the finally blocks
    result,         \* per process: outcome of the last finished call
    pre,            \* per process: the disk as it was when the call began
    renamed,        \* per process: os.rename of this call has succeeded
    hist,           \* per process: what preceded this call (history, not program state)
    lastResult,     \* outcome of the call that finished last
    stableCur,      \* the remote has not changed since the last request
    everSynced,     \* a sync has succeeded on the directory
    calls,          \* calls begun so far
    faults,         \* failures of the environment so far
    given,          \* the arguments of a direct call of get_epa_updates
    request         \* the headers of the request that call built

disk   == <<live, tmpExists, tmpDir, etagFile, lmFile>>
vars   == <<remote, live, tmpExists, tmpDir, etagFile, lmFile,
            pc, etag, last_modified, response, tempFile, name, fd, exc, result,
            pre, renamed, hist, lastResult, stableCur, everSynced, calls, faults,
            given, request>>

(***************************************************************************)
(* Bounds of the model.                                                    *)
(***************************************************************************)
NProcs       == 2    \* processes that may run ensure_latest on the directory
MaxVer       == 1    \* the remote publishes versions 0..MaxVer
DataChunks   == 2    \* chunks copied by one extraction
ShortEtagLen == 8    \* length of an ordinary ETag
MaxCalls     == 2    \* calls of ensure_latest that follow one another
MaxRacing    == 2    \* calls of ensure_latest that may run at the same time
MaxFaults    == 1    \* failed system calls and crashes in one behaviour
MaxZone      == 4    \* time zones are -MaxZone..MaxZone steps away from UTC
ZoneStep     == 210  \* minutes in one step

(***************************************************************************)
(* Program constants.                                                      *)
(***************************************************************************)
ReadLimit == 2048    \* f.read(2048)
LmLen     == 29      \* '%a, %d %b %Y %H:%M:%S GMT'

Procs      == 1..NProcs
CANONICAL  == "vehicles.csv"
StageNames == {"vehicles.csv", "data.csv"}

(***************************************************************************)
(* Strings that matter only through identity and length: a header value or *)
(* a sidecar content is [k, ver, len].  None is Python's None, NoFile a    *)
(* path that does not exist, Empty the empty string.                       *)
(***************************************************************************)
None   == [k |-> "None",   ver |-> 0, len |-> 0]
NoFile == [k |-> "NoFile", ver |-> 0, len |-> 0]
Empty  == [k |-> "str",    ver |-> 0, len |-> 0]

ETAG          == "ETag"
LAST_MODIFIED == "Last-Modified"

EtagOf(r) == [k |-> ETAG, ver |-> r.ver, len |-> r.etagLen]
LmOf(r)   == [k |-> LAST_MODIFIED, ver |-> r.ver, len |-> LmLen]

\* f.read(n) of a file holding s: at most the first n characters
Read(s, n) == IF s.len <= n THEN s ELSE [s EXCEPT !.len = n]

(***************************************************************************)
(* Archives and file contents.                                             *)
(***************************************************************************)
Archives ==
    { [zip |-> TRUE,  names |-> <<"vehicles.csv">>],
      [zip |-> TRUE,  names |-> <<"data.csv">>],
      [zip |-> TRUE,  names |-> <<"readme.txt", "vehicles.csv">>],
      [zip |-> TRUE,  names |-> <<"readme.txt", "data.csv">>],
      [zip |-> TRUE,  names |-> <<>>],
      [zip |-> FALSE, names |-> <<>>] }

NoArchive == [zip |-> FALSE, names |-> <<>>]

\* chunk i of entry n of the archive of version v
Chunk(v, n) == [v |-> v, n |-> n]
Hole        == [v |-> -1, n |-> "hole"]
EntryData(v, n) == [i \in 1..DataChunks |-> Chunk(v, n)]

Remotes == [ver : 0..MaxVer, etagLen : {ShortEtagLen, ReadLimit + 1}, archive : Archives]

NoResponse == [code |-> 0, ver |-> 0, etagHdr |-> None, lmHdr |-> None, archive |-> NoArchive]

\* an open file is at "live", at tmp/<name>, or at "orphan" once no directory
\* entry leads to its file any more
NoFd       == [at |-> "none", off |-> 0]
Missing    == [exists |-> FALSE, data |-> <<>>]
File(d)    == [exists |-> TRUE, data |-> d]

StageView == [exists |-> tmpExists, files |-> tmpDir]
Snapshot(p) == [live |-> live, etag |-> etagFile, lm |-> lmFile,
                stage |-> StageView, temp |-> tempFile[p]]
NoSnapshot == [live |-> Missing, etag |-> NoFile, lm |-> NoFile,
               stage |-> [exists |-> FALSE, files |-> [n \in StageNames |-> Missing]],
               temp |-> "none"]

\* history of a call that began alone: how the call before it ended, whether the
\* remote stayed the same since that call's request, whether a sidecar that is
\* there could not be read (and which one), whether a cleanup step itself failed
NoHist == [alone |-> FALSE, prev |-> "none", stable |-> FALSE, loadFault |-> FALSE,
           etagFault |-> FALSE, lmFault |-> FALSE, cleanupFault |-> FALSE]

(***************************************************************************)
(* get_epa_updates called directly: the values it is given.  A Python      *)
(* value is [type, v] with v a sequence: what a string spells, the one     *)
(* number of an int, long or float, the fields of a struct_time or of a    *)
(* datetime.                                                               *)
(***************************************************************************)
PyNone == [type |-> "NoneType", v |-> <<>>]
Str(t) == [type |-> "str", v |-> t]

\* days since 1970-01-01 of a date of the proleptic Gregorian calendar, and back
DaysFromCivil(y, m, d) ==
    LET yy  == IF m <= 2 THEN y - 1 ELSE y
        era == yy \div 400
        yoe == yy - era * 400
        doy == (153 * (IF m > 2 THEN m - 3 ELSE m + 9) + 2) \div 5 + d - 1
        doe == yoe * 365 + yoe \div 4 - yoe \div 100 + doy
    IN  era * 146097 + doe - 719468

CivilFromDays(z) ==
    LET zz  == z + 719468
        era == zz \div 146097
        doe == zz - era * 146097
        yoe == (doe - doe \div 1460 + doe \div 36524 - doe \div 146096) \div 365
        doy == doe - (365 * yoe + yoe \div 4 - yoe \div 100)
        mp  == (5 * doy + 2) \div 153
        m   == IF mp < 10 THEN mp + 3 ELSE mp - 9
    IN  [year |-> yoe + era * 400 + (IF m <= 2 THEN 1 ELSE 0),
         mon  |-> m,
         mday |-> doy - (153 * mp + 2) \div 5 + 1]

\* tm_wday of a day: Monday is 0, and 1970-01-01 was a Thursday
Weekday(z) == (z + 3) % 7

\* time.gmtime (line 192): epoch seconds to the struct_time
\* <<tm_year, tm_mon, tm_mday, tm_hour, tm_min, tm_sec, tm_wday>> of UTC
GmTime(t) ==
    LET z == t \div 86400
        r == t % 86400
        c == CivilFromDays(z)
    IN  <<c.year, c.mon, c.mday, r \div 3600, (r % 3600) \div 60, r % 60, Weekday(z)>>

\* epoch seconds of the wall-clock fields <<year, month, day, hour, minute,
\* second, ...>> of a datetime, read as UTC
Seconds(d) ==
    DaysFromCivil(d[1], d[2], d[3]) * 86400 + d[4] * 3600 + d[5] * 60 + d[6]

\* utctimetuple without the zone: the wall-clock fields taken as they are
UtcTimeTupleLocal(d) == GmTime(Seconds(d))

\* datetime.utctimetuple (line 190) of <<..., aware, utcoffset in minutes>>: a
\* naive datetime is taken to be UTC, from an aware one its offset is subtracted
UtcTimeTuple(d) ==
    IF d[7] = 1 THEN GmTime(Seconds(d) - d[8] * 60) ELSE GmTime(Seconds(d))

\* time.strftime('%a, %d %b %Y %H:%M:%S GMT', tm) (line 195): the fields of tm
\* in the order of the format; the day and month names stand for their number
StrfTime(tm) == <<tm[7], tm[3], tm[2], tm[1], tm[4], tm[5], tm[6]>>

\* lines 187-197 with the test of line 187 left out: the If-Modified-Since
\* value of a last_modified, PyNone when the header is not added
Normalized(lm) ==
    LET a == IF lm.type = "datetime"
             THEN [type |-> "struct_time", v |-> UtcTimeTuple(lm.v)]
             ELSE IF lm.type \in {"float", "int", "long"}
             THEN [type |-> "struct_time", v |-> GmTime(lm.v[1])]
             ELSE lm
        b == IF a.type = "struct_time" THEN Str(StrfTime(a.v)) ELSE a
    IN  IF b.type = "str" THEN b ELSE PyNone

\* line 200
UserAgent ==
    <<"Mozilla/5.0 compatible urllib on behalf of python-libvin: https://github.com/h3/python-libvin">>

\* the etag header attached whatever the etag is
AddHeadersAlways(e, lm) ==
    [built |-> TRUE,
     inm   |-> e,
     ims   |-> IF lm.type # "NoneType" /\ ~(lm.type = "str" /\ lm.v = <<>>)
               THEN Normalized(lm) ELSE PyNone,
     ua    |-> Str(UserAgent)]

\* lines 181-200: the headers of the request
AddHeaders(e, lm) ==
    [built |-> TRUE,
     inm   |-> IF e.type # "NoneType" /\ e.v # <<>> THEN e ELSE PyNone,
     ims   |-> IF lm.type # "NoneType" /\ ~(lm.type = "str" /\ lm.v = <<>>)
               THEN Normalized(lm) ELSE PyNone,
     ua    |-> Str(UserAgent)]

NoRequest == [built |-> FALSE, inm |-> PyNone, ims |-> PyNone, ua |-> PyNone]
NoArgs    == [etag |-> PyNone, last_modified |-> PyNone, instant |-> -1]

\* the instants tried: the epoch, the last second of a day, a leap day of a
\* century year, the last second of a year, the first minutes of a March, a
\* day of the dataset's lifetime, a day near the end of 32-bit time
Instants == {0, 86399, 951867000, 1451606399, 1456791300, 1467374400, 2100000000}
Zones    == {z * ZoneStep : z \in -MaxZone..MaxZone}

\* the wall clock of instant t in the zone off minutes east of UTC
Datetime(t, aware, off) == SubSeq(GmTime(t + off * 60), 1, 6) \o <<aware, off>>

\* one instant in every form test_old_and_new_by_type hands over
Variants(t) ==
    {Str(StrfTime(GmTime(t))),
     [type |-> "struct_time", v |-> GmTime(t)],
     [type |-> "int", v |-> <<t>>], [type |-> "long", v |-> <<t>>],
     [type |-> "float", v |-> <<t>>],
     [type |-> "datetime", v |-> Datetime(t, 0, 0)]}
    \cup {[type |-> "datetime", v |-> Datetime(t, 1, off)] : off \in Zones}

Etags == {PyNone, Str(<<>>), Str(<<"W/\"5d5c-53a0\"">>)}

Arguments ==
    [etag : Etags, last_modified : {PyNone, Str(<<>>)}, instant : {-1}]
    \cup UNION {[etag : Etags, last_modified : Variants(t), instant : {t}] : t \in Instants}

(***************************************************************************)
(* Init: the target directory is either empty or holds version 0 with its  *)
(* two sidecars, as a finished earlier sync left it.                       *)
(***************************************************************************)
InitSync ==
    /\ remote \in {r \in Remotes : r.ver = 0 /\ r.archive.names = <<CANONICAL>>}
    /\ \E installed \in BOOLEAN :
         /\ everSynced = installed
         /\ live = IF installed THEN File(EntryData(0, CANONICAL)) ELSE Missing
         /\ etagFile = IF installed THEN EtagOf(remote) ELSE NoFile
         /\ lmFile = IF installed THEN LmOf(remote) ELSE NoFile
    /\ tmpExists = FALSE
    /\ tmpDir = [n \in StageNames |-> Missing]
    /\ pc = [p \in Procs |-> "idle"]
    /\ etag = [p \in Procs |-> None]
    /\ last_modified = [p \in Procs |-> None]
    /\ response = [p \in Procs |-> NoResponse]
    /\ tempFile = [p \in Procs |-> "none"]
    /\ name = [p \in Procs |-> "none"]
    /\ fd = [p \in Procs |-> NoFd]
    /\ exc = [p \in Procs |-> "none"]
    /\ result = [p \in Procs |-> "none"]
    /\ pre = [p \in Procs |-> NoSnapshot]
    /\ renamed = [p \in Procs |-> FALSE]
    /\ hist = [p \in Procs |-> NoHist]
    /\ lastResult = "none"
    /\ stableCur = FALSE
    /\ calls = 0
    /\ faults = 0

Init ==
    /\ InitSync
    /\ given = NoArgs
    /\ request = NoRequest

\* get_epa_updates is called directly, on a directory no call has touched
InitUpdates ==
    /\ InitSync
    /\ remote.etagLen = ShortEtagLen
    /\ ~everSynced
    /\ given \in Arguments
    /\ request = NoRequest

(***************************************************************************)
(* Pure parts of the code.                                                 *)
(***************************************************************************)
\* `if etag:` (line 182)
Truthy(s) == s.k # "None" /\ s.len > 0

\* get_epa_updates, lines 181-197: the precondition headers of the request.
\* A header that is not added is None.
RequestHeaders(e, lm) ==
    [inm |-> IF Truthy(e) THEN e ELSE None,
     ims |-> IF lm.k # "None" /\ lm.len # 0 THEN lm ELSE None]

\* the first entry taken whatever the archive holds
SelectNameFirst(namelist) ==
    IF Len(namelist) = 0 THEN "IndexError" ELSE namelist[1]

\* lines 121-124: the entry to extract; "IndexError" when namelist[0] fails
SelectName(namelist) ==
    LET nl == IF Len(namelist) # 1
              THEN SelectSeq(namelist, LAMBDA n : n = CANONICAL)
              ELSE namelist
    IN  IF Len(nl) = 0 THEN "IndexError" ELSE nl[1]

\* a write of chunk c at position k of a file holding s
WriteAt(s, k, c) ==
    IF k <= Len(s) THEN [s EXCEPT ![k] = c]
    ELSE s \o [i \in 1..(k - 1 - Len(s)) |-> Hole] \o <<c>>

\* the remote answers not-modified when every validator it is sent is the one
\* it issued for its current version, and at least one is sent
Matches(h, r) ==
    /\ (h.inm # None \/ h.ims # None)
    /\ (h.inm # None => h.inm = EtagOf(r))
    /\ (h.ims # None => h.ims = LmOf(r))

(***************************************************************************)
(* ensure_latest, one action per step.                                     *)
(***************************************************************************)
\* the sidecars written before the rename instead of after it
SuccessorTokensFirst(label) ==
    CASE label = "load_etag"     -> "load_lm"
      [] label = "load_lm"       -> "request"
      [] label = "request"       -> "headers"
      [] label = "headers"       -> "mkstemp"
      [] label = "mkstemp"       -> "download"
      [] label = "download"      -> "zip_open"
      [] label = "zip_open"      -> "extract_open"
      [] label = "extract_open"  -> "extract_write"
      [] label = "extract_write" -> "etag_open"
      [] label = "etag_open"     -> "etag_write"
      [] label = "etag_write"    -> "lm_open"
      [] label = "lm_open"       -> "lm_write"
      [] label = "lm_write"      -> "rename"
      [] label = "rename"        -> "rmtree"
      [] label = "rmtree"        -> "unlink"

\* the etag sidecar written before the rename, the rest as it is
SuccessorEtagFirst(label) ==
    CASE label = "load_etag"     -> "load_lm"
      [] label = "load_lm"       -> "request"
      [] label = "request"       -> "headers"
      [] label = "headers"       -> "mkstemp"
      [] label = "mkstemp"       -> "download"
      [] label = "download"      -> "zip_open"
      [] label = "zip_open"      -> "extract_open"
      [] label = "extract_open"  -> "extract_write"
      [] label = "extract_write" -> "etag_open"
      [] label = "etag_open"     -> "etag_write"
      [] label = "etag_write"    -> "rename"
      [] label = "rename"        -> "lm_open"
      [] label = "lm_open"       -> "lm_write"
      [] label = "lm_write"      -> "rmtree"
      [] label = "rmtree"        -> "unlink"

\* the last_modified sidecar never loaded
SuccessorSkipLoad(label) ==
    CASE label = "load_etag"     -> "request"
      [] label = "load_lm"       -> "request"
      [] label = "request"       -> "headers"
      [] label = "headers"       -> "mkstemp"
      [] label = "mkstemp"       -> "download"
      [] label = "download"      -> "zip_open"
      [] label = "zip_open"      -> "extract_open"
      [] label = "extract_open"  -> "extract_write"
      [] label = "extract_write" -> "rename"
      [] label = "rename"        -> "etag_open"
      [] label = "etag_open"     -> "etag_write"
      [] label = "etag_write"    -> "lm_open"
      [] label = "lm_open"       -> "lm_write"
      [] label = "lm_write"      -> "rmtree"
      [] label = "rmtree"        -> "unlink"

\* the response headers looked up only after mkstemp
SuccessorHeadersLate(label) ==
    CASE label = "load_etag"     -> "load_lm"
      [] label = "load_lm"       -> "request"
      [] label = "request"       -> "mkstemp"
      [] label = "mkstemp"       -> "headers"
      [] label = "headers"       -> "download"
      [] label = "download"      -> "zip_open"
      [] label = "zip_open"      -> "extract_open"
      [] label = "extract_open"  -> "extract_write"
      [] label = "extract_write" -> "rename"
      [] label = "rename"        -> "etag_open"
      [] label = "etag_open"     -> "etag_write"
      [] label = "etag_write"    -> "lm_open"
      [] label = "lm_open"       -> "lm_write"
      [] label = "lm_write"      -> "rmtree"
      [] label = "rmtree"        -> "unlink"

\* the statement that follows a statement that succeeded
Successor(label) ==
    CASE label = "load_etag"     -> "load_lm"
      [] label = "load_lm"       -> "request"
      [] label = "request"       -> "headers"
      [] label = "headers"       -> "mkstemp"
      [] label = "mkstemp"       -> "download"
      [] label = "download"      -> "zip_open"
      [] label = "zip_open"      -> "extract_open"
      [] label = "extract_open"  -> "extract_write"
      [] label = "extract_write" -> "rename"
      [] label = "rename"        -> "etag_open"
      [] label = "etag_open"     -> "etag_write"
      [] label = "etag_write"    -> "lm_open"
      [] label = "lm_open"       -> "lm_write"
      [] label = "lm_write"      -> "rmtree"
      [] label = "rmtree"        -> "unlink"

\* no finally block at all
HandlerNoFinally(label) == "propagate"

\* where an exception raised by a statement goes: the inner finally (line 138),
\* the outer finally (line 145), or straight out of the function
Handler(label) ==
    IF label \in {"zip_open", "extract_open", "extract_write", "rename",
                  "etag_open", "etag_write", "lm_open", "lm_write"} THEN "rmtree"
    ELSE IF label = "download" THEN "unlink"
    ELSE "propagate"

\* the call ends: it returns True or False, raises, or the process dies
Finish(p, res) ==
    /\ pc' = [pc EXCEPT ![p] = "done"]
    /\ result' = [result EXCEPT ![p] = res]
    /\ lastResult' = IF hist[p].alone THEN res ELSE lastResult
    /\ everSynced' = (everSynced \/ res = "True")

Goto(p, label) ==
    /\ pc' = [pc EXCEPT ![p] = label]
    /\ UNCHANGED <<exc, result, lastResult, everSynced>>

\* an exception raised by the statement at label: control goes to its finally
\* block, or out of the function when no try block encloses the statement
Raise(p, e, label) ==
    /\ exc' = [exc EXCEPT ![p] = e]
    /\ IF Handler(label) = "propagate"
       THEN Finish(p, "raised")
       ELSE /\ pc' = [pc EXCEPT ![p] = Handler(label)]
            /\ UNCHANGED <<result, lastResult, everSynced>>

\* a system call fails, or the process is killed: the environment's doing
Fault   == faults < MaxFaults /\ faults' = faults + 1
NoFault == faults' = faults

\* lines 73-82
Enter(p) ==
    /\ pc[p] = "idle"
    /\ calls' = calls + 1
    /\ pc' = [pc EXCEPT ![p] = "load_etag"]
    /\ etag' = [etag EXCEPT ![p] = None]
    /\ last_modified' = [last_modified EXCEPT ![p] = None]
    /\ response' = [response EXCEPT ![p] = NoResponse]
    /\ name' = [name EXCEPT ![p] = "none"]
    /\ exc' = [exc EXCEPT ![p] = "none"]
    /\ result' = [result EXCEPT ![p] = "none"]
    /\ renamed' = [renamed EXCEPT ![p] = FALSE]
    /\ UNCHANGED <<given, request, remote, disk, tempFile, fd, lastResult, stableCur, everSynced, faults>>

\* a call that may run while other calls run
Begin(p) ==
    /\ calls < MaxRacing
    /\ Enter(p)
    /\ UNCHANGED <<pre, hist>>

\* calls made one after the other by one process.  What the directory held when
\* the call began, and how the call before ended, is remembered.
BeginAlone(p) ==
    /\ p = 1
    /\ calls < MaxCalls
    /\ Enter(p)
    /\ pre' = [pre EXCEPT ![p] = Snapshot(p)]
    /\ hist' = [hist EXCEPT ![p] = [NoHist EXCEPT !.alone = TRUE, !.prev = lastResult]]

\* lines 83-89: IOError leaves etag None
LoadEtag(p) ==
    /\ pc[p] = "load_etag"
    /\ \/ /\ etagFile # NoFile
          /\ etag' = [etag EXCEPT ![p] = Read(etagFile, ReadLimit)]
          /\ hist' = hist
          /\ NoFault
       \/ /\ etagFile = NoFile
          /\ UNCHANGED <<etag, hist>>
          /\ NoFault
       \/ /\ etagFile # NoFile
          /\ etag' = etag
          /\ hist' = [hist EXCEPT ![p].loadFault = hist[p].alone,
                                  ![p].etagFault = hist[p].alone]
          /\ Fault
    /\ Goto(p, Successor("load_etag"))
    /\ UNCHANGED <<given, request, remote, disk, last_modified, response, tempFile, name, fd, pre,
                   renamed, stableCur, calls>>

\* lines 91-97
LoadLastModified(p) ==
    /\ pc[p] = "load_lm"
    /\ \/ /\ lmFile # NoFile
          /\ last_modified' = [last_modified EXCEPT ![p] = Read(lmFile, ReadLimit)]
          /\ hist' = hist
          /\ NoFault
       \/ /\ lmFile = NoFile
          /\ UNCHANGED <<last_modified, hist>>
          /\ NoFault
       \/ /\ lmFile # NoFile
          /\ last_modified' = last_modified
          /\ hist' = [hist EXCEPT ![p].loadFault = hist[p].alone,
                                  ![p].lmFault = hist[p].alone]
          /\ Fault
    /\ Goto(p, Successor("load_lm"))
    /\ UNCHANGED <<given, request, remote, disk, etag, response, tempFile, name, fd, pre,
                   renamed, stableCur, calls>>

\* The statuses the opener hands back or raises for (lines 174-179, 204-205):
\* 304 is returned by NotFoundHandler, every 2xx is returned as it is, every
\* other status is raised as HTTPError by HTTPDefaultErrorHandler.
Returned(code) == code = 304 \/ (200 <= code /\ code < 300)

\* the test of line 100 made against the wrong status
IsNewDataNot200(code) == code # 200

\* line 100
IsNewData(code) == code # 304

\* the answers the remote can give to a request with headers h
Answers(h) ==
    LET body(c) == [code |-> c, ver |-> remote.ver, etagHdr |-> EtagOf(remote),
                    lmHdr |-> LmOf(remote), archive |-> remote.archive]
    IN  (IF Matches(h, remote)
         THEN {[code |-> 304, ver |-> remote.ver, etagHdr |-> EtagOf(remote),
                lmHdr |-> LmOf(remote), archive |-> NoArchive]}
         ELSE {body(200), [body(200) EXCEPT !.etagHdr = None],
               [body(200) EXCEPT !.lmHdr = None]})
        \cup {body(203)}
        \cup {[NoResponse EXCEPT !.code = c] : c \in {404, 500}}

\* line 99 and lines 100-103, 151-153
Request(p) ==
    /\ pc[p] = "request"
    /\ hist' = [hist EXCEPT ![p].stable = stableCur]
    /\ stableCur' = hist[p].alone
    /\ \/ \E r \in Answers(RequestHeaders(etag[p], last_modified[p])) :
            /\ response' = [response EXCEPT ![p] = r]
            /\ IF ~Returned(r.code)
               THEN Raise(p, "HTTPError", "request")
               ELSE IF IsNewData(r.code)
               THEN Goto(p, Successor("request"))
               ELSE /\ exc' = exc
                    /\ Finish(p, "False")
            /\ NoFault
       \/ /\ response' = response       \* no answer: the transport failed
          /\ Raise(p, "URLError", "request")
          /\ Fault
    /\ UNCHANGED <<given, request, remote, disk, etag, last_modified, tempFile, name, fd, pre, renamed, calls>>

\* lines 102-103: a header that is missing raises KeyError
Headers(p) ==
    /\ pc[p] = "headers"
    /\ IF response[p].etagHdr = None \/ response[p].lmHdr = None
       THEN Raise(p, "KeyError", "headers")
       ELSE Goto(p, Successor("headers"))
    /\ UNCHANGED <<given, request, remote, disk, etag, last_modified, response, tempFile, name, fd,
                   pre, renamed, hist, stableCur, calls, faults>>

\* line 110
Mkstemp(p) ==
    /\ pc[p] = "mkstemp"
    /\ \/ /\ tempFile' = [tempFile EXCEPT ![p] = "empty"]
          /\ Goto(p, Successor("mkstemp"))
          /\ NoFault
       \/ /\ tempFile' = tempFile
          /\ Raise(p, "OSError", "mkstemp")
          /\ Fault
    /\ UNCHANGED <<given, request, remote, disk, etag, last_modified, response, name, fd,
                   pre, renamed, hist, stableCur, calls>>

\* lines 112-116
Download(p) ==
    /\ pc[p] = "download"
    /\ \/ /\ tempFile' = [tempFile EXCEPT ![p] = "body"]
          /\ Goto(p, Successor("download"))
          /\ NoFault
       \/ /\ tempFile' = tempFile
          /\ Raise(p, "IOError", "download")
          /\ Fault
    /\ UNCHANGED <<given, request, remote, disk, etag, last_modified, response, name, fd,
                   pre, renamed, hist, stableCur, calls>>

\* lines 120-124
ZipOpen(p) ==
    /\ pc[p] = "zip_open"
    /\ IF ~response[p].archive.zip
       THEN /\ name' = name
            /\ Raise(p, "BadZipfile", "zip_open")
       ELSE IF SelectName(response[p].archive.names) = "IndexError"
       THEN /\ name' = name
            /\ Raise(p, "IndexError", "zip_open")
       ELSE /\ name' = [name EXCEPT ![p] = SelectName(response[p].archive.names)]
            /\ Goto(p, Successor("zip_open"))
    /\ UNCHANGED <<given, request, remote, disk, etag, last_modified, response, tempFile, fd,
                   pre, renamed, hist, stableCur, calls, faults>>

\* a write of chunk c at the position of the open file f: it lands in the file
\* wherever its directory entry is now, or nowhere visible
WriteLive(f, c) ==
    IF f.at = "live" THEN [live EXCEPT !.data = WriteAt(@, f.off + 1, c)] ELSE live
WriteTmp(f, c) ==
    IF f.at \in StageNames THEN [tmpDir EXCEPT ![f.at].data = WriteAt(@, f.off + 1, c)]
    ELSE tmpDir

\* the open files after tmp/<n> became vehicles.csv, and after tmp was removed
AfterRename(f, n) ==
    [q \in Procs |-> IF f[q].at = n THEN [f[q] EXCEPT !.at = "live"]
                     ELSE IF f[q].at = "live" THEN [f[q] EXCEPT !.at = "orphan"]
                     ELSE f[q]]
AfterRmtree(f) ==
    [q \in Procs |-> IF f[q].at \in StageNames THEN [f[q] EXCEPT !.at = "orphan"] ELSE f[q]]

\* line 118: the extraction directory is the same for every call
ExtractedPath(p) == name[p]

\* line 125, zip_file.extract: makes <target_dir>/tmp if needed and opens
\* tmp/<name> with mode 'wb', which creates the file or truncates it in place
ExtractOpen(p) ==
    /\ pc[p] = "extract_open"
    /\ \/ /\ tmpExists' = TRUE
          /\ tmpDir' = [tmpDir EXCEPT ![ExtractedPath(p)] = File(<<>>)]
          /\ fd' = [fd EXCEPT ![p] = [at |-> ExtractedPath(p), off |-> 0]]
          /\ Goto(p, Successor("extract_open"))
          /\ NoFault
       \/ /\ UNCHANGED <<tmpExists, tmpDir, fd>>
          /\ Raise(p, "IOError", "extract_open")
          /\ Fault
    /\ UNCHANGED <<given, request, remote, live, etagFile, lmFile, etag, last_modified, response,
                   tempFile, name, pre, renamed, hist, stableCur, calls>>

\* line 125, the copy loop of zip_file.extract: one chunk is written at the
\* offset of this process's file object; after the last one the file is closed
ExtractWrite(p) ==
    /\ pc[p] = "extract_write"
    /\ \/ /\ live' = WriteLive(fd[p], Chunk(response[p].ver, name[p]))
          /\ tmpDir' = WriteTmp(fd[p], Chunk(response[p].ver, name[p]))
          /\ IF fd[p].off + 1 < DataChunks
             THEN /\ fd' = [fd EXCEPT ![p].off = @ + 1]
                  /\ Goto(p, "extract_write")
             ELSE /\ fd' = [fd EXCEPT ![p] = NoFd]
                  /\ Goto(p, Successor("extract_write"))
          /\ NoFault
       \/ /\ fd' = [fd EXCEPT ![p] = NoFd]
          /\ UNCHANGED <<live, tmpDir>>
          /\ Raise(p, "IOError", "extract_write")
          /\ Fault
    /\ UNCHANGED <<given, request, remote, tmpExists, etagFile, lmFile, etag, last_modified,
                   response, tempFile, name, pre, renamed, hist, stableCur, calls>>

\* lines 127-129: os.rename moves the directory entry tmp/<name> to
\* vehicles.csv; it raises OSError when tmp/<name> is not there
Rename(p) ==
    /\ pc[p] = "rename"
    /\ \/ /\ tmpDir[ExtractedPath(p)].exists
          /\ live' = tmpDir[ExtractedPath(p)]
          /\ tmpDir' = [tmpDir EXCEPT ![ExtractedPath(p)] = Missing]
          /\ fd' = AfterRename(fd, ExtractedPath(p))
          /\ renamed' = [renamed EXCEPT ![p] = TRUE]
          /\ Goto(p, Successor("rename"))
          /\ NoFault
       \/ /\ ~tmpDir[ExtractedPath(p)].exists
          /\ UNCHANGED <<live, tmpDir, fd, renamed>>
          /\ Raise(p, "OSError", "rename")
          /\ NoFault
       \/ /\ tmpDir[ExtractedPath(p)].exists
          /\ UNCHANGED <<live, tmpDir, fd, renamed>>
          /\ Raise(p, "OSError", "rename")
          /\ Fault
    /\ UNCHANGED <<given, request, remote, tmpExists, etagFile, lmFile, etag, last_modified, response,
                   tempFile, name, pre, hist, stableCur, calls>>

\* the etag sidecar given the other header
NewEtagSwapped(r)  == r.lmHdr

\* the values lines 132 and 136 write
NewEtag(r)         == r.etagHdr
NewLastModified(r) == r.lmHdr

\* line 131: open(etag_path, 'w') creates the file or truncates it
EtagOpen(p) ==
    /\ pc[p] = "etag_open"
    /\ \/ /\ etagFile' = Empty
          /\ Goto(p, Successor("etag_open"))
          /\ NoFault
       \/ /\ etagFile' = etagFile
          /\ Raise(p, "IOError", "etag_open")
          /\ Fault
    /\ UNCHANGED <<given, request, remote, live, tmpExists, tmpDir, lmFile, etag, last_modified,
                   response, tempFile, name, fd, pre, renamed, hist, stableCur, calls>>

\* lines 132-133
EtagWrite(p) ==
    /\ pc[p] = "etag_write"
    /\ \/ /\ etagFile' = NewEtag(response[p])
          /\ Goto(p, Successor("etag_write"))
          /\ NoFault
       \/ /\ etagFile' = etagFile
          /\ Raise(p, "IOError", "etag_write")
          /\ Fault
    /\ UNCHANGED <<given, request, remote, live, tmpExists, tmpDir, lmFile, etag, last_modified,
                   response, tempFile, name, fd, pre, renamed, hist, stableCur, calls>>

\* line 135
LmOpen(p) ==
    /\ pc[p] = "lm_open"
    /\ \/ /\ lmFile' = Empty
          /\ Goto(p, Successor("lm_open"))
          /\ NoFault
       \/ /\ lmFile' = lmFile
          /\ Raise(p, "IOError", "lm_open")
          /\ Fault
    /\ UNCHANGED <<given, request, remote, live, tmpExists, tmpDir, etagFile, etag, last_modified,
                   response, tempFile, name, fd, pre, renamed, hist, stableCur, calls>>

\* lines 136-137
LmWrite(p) ==
    /\ pc[p] = "lm_write"
    /\ \/ /\ lmFile' = NewLastModified(response[p])
          /\ Goto(p, Successor("lm_write"))
          /\ NoFault
       \/ /\ lmFile' = lmFile
          /\ Raise(p, "IOError", "lm_write")
          /\ Fault
    /\ UNCHANGED <<given, request, remote, live, tmpExists, tmpDir, etagFile, etag, last_modified,
                   response, tempFile, name, fd, pre, renamed, hist, stableCur, calls>>

\* lines 138-144: rmtree removes <target_dir>/tmp and all it holds; an OSError
\* (the directory is not there, or it cannot be removed) is logged and dropped
Rmtree(p) ==
    /\ pc[p] = "rmtree"
    /\ \/ /\ tmpExists
          /\ tmpExists' = FALSE
          /\ tmpDir' = [n \in StageNames |-> Missing]
          /\ fd' = AfterRmtree(fd)
          /\ hist' = hist
          /\ NoFault
       \/ /\ ~tmpExists
          /\ UNCHANGED <<tmpExists, tmpDir, fd, hist>>
          /\ NoFault
       \/ /\ tmpExists
          /\ UNCHANGED <<tmpExists, tmpDir, fd>>
          /\ hist' = [hist EXCEPT ![p].cleanupFault = hist[p].alone]
          /\ Fault
    /\ Goto(p, Successor("rmtree"))
    /\ UNCHANGED <<given, request, remote, live, etagFile, lmFile, etag, last_modified, response,
                   tempFile, name, pre, renamed, stableCur, calls>>

\* lines 145-150: the temporary file is unlinked; an error of os.unlink is not
\* caught.  Then the pending exception goes on, or the function returns True.
Unlink(p) ==
    /\ pc[p] = "unlink"
    /\ \/ /\ tempFile' = [tempFile EXCEPT ![p] = "none"]
          /\ exc' = exc
          /\ hist' = hist
          /\ Finish(p, IF exc[p] = "none" THEN "True" ELSE "raised")
          /\ NoFault
       \/ /\ tempFile[p] # "none"
          /\ tempFile' = tempFile
          /\ exc' = [exc EXCEPT ![p] = "OSError(unlink)"]
          /\ hist' = [hist EXCEPT ![p].cleanupFault = hist[p].alone]
          /\ Finish(p, "raised")
          /\ Fault
    /\ UNCHANGED <<given, request, remote, disk, etag, last_modified, response, name, fd,
                   pre, renamed, stableCur, calls>>

\* the process is killed in the middle of the call: nothing of the function
\* runs any more, its open file is closed by the system
Crash(p) ==
    /\ pc[p] \notin {"idle", "done"}
    /\ fd' = [fd EXCEPT ![p] = NoFd]
    /\ tempFile' = [tempFile EXCEPT ![p] = "none"]
    /\ exc' = exc
    /\ Finish(p, "crashed")
    /\ Fault
    /\ UNCHANGED <<given, request, remote, disk, etag, last_modified, response, name, pre, renamed,
                   hist, stableCur, calls>>

\* the caller has the outcome; nothing of the call is kept in memory
Return(p) ==
    /\ pc[p] = "done"
    /\ pc' = [pc EXCEPT ![p] = "idle"]
    /\ etag' = [etag EXCEPT ![p] = None]
    /\ last_modified' = [last_modified EXCEPT ![p] = None]
    /\ response' = [response EXCEPT ![p] = NoResponse]
    /\ name' = [name EXCEPT ![p] = "none"]
    /\ exc' = [exc EXCEPT ![p] = "none"]
    /\ result' = [result EXCEPT ![p] = "none"]
    /\ renamed' = [renamed EXCEPT ![p] = FALSE]
    /\ pre' = [pre EXCEPT ![p] = NoSnapshot]
    /\ hist' = [hist EXCEPT ![p] = NoHist]
    /\ UNCHANGED <<given, request, remote, disk, tempFile, fd, lastResult, stableCur, everSynced,
                   calls, faults>>

\* the remote publishes the next version of the dataset
Publish ==
    /\ remote.ver < MaxVer
    /\ remote' \in {r \in Remotes : r.ver = remote.ver + 1 /\ r.etagLen = remote.etagLen}
    /\ stableCur' = FALSE
    /\ UNCHANGED <<given, request, disk, pc, etag, last_modified, response, tempFile,
                   name, fd, exc,
                   result, pre, renamed, hist, lastResult, everSynced, calls, faults>>

Step(p) ==
    \/ LoadEtag(p) \/ LoadLastModified(p) \/ Request(p) \/ Headers(p)
    \/ Mkstemp(p) \/ Download(p) \/ ZipOpen(p) \/ ExtractOpen(p) \/ ExtractWrite(p)
    \/ Rename(p) \/ EtagOpen(p) \/ EtagWrite(p) \/ LmOpen(p) \/ LmWrite(p)
    \/ Rmtree(p) \/ Unlink(p) \/ Crash(p) \/ Return(p)

\* processes run ensure_latest on the same directory at the same time
Next == (\E p \in Procs : Begin(p) \/ Step(p)) \/ Publish

Spec == Init /\ [][Next]_vars

\* one process calls ensure_latest time after time
NextAlone == (\E p \in Procs : BeginAlone(p) \/ Step(p)) \/ Publish

SpecAlone == Init /\ [][NextAlone]_vars

\* lines 181-200 of get_epa_updates, up to the request being handed to the opener
GetEpaUpdates ==
    /\ ~request.built
    /\ request' = AddHeaders(given.etag, given.last_modified)
    /\ UNCHANGED <<given, remote, disk, pc, etag, last_modified, response, tempFile,
                   name, fd, exc, result, pre, renamed, hist, lastResult, stableCur,
                   everSynced, calls, faults>>

NextUpdates == GetEpaUpdates

SpecUpdates == InitUpdates /\ [][NextUpdates]_vars

(***************************************************************************)
(* Properties.                                                             *)
(***************************************************************************)
\* the call of p has ended and its outcome is with the caller
Done(p) == pc[p] = "done"

\* the live dataset and both sidecars are as they were when the call began
DiskUntouched(p) ==
    /\ live = pre[p].live
    /\ etagFile = pre[p].etag
    /\ lmFile = pre[p].lm

\* the staging locations are as they were when the call began
StagingUntouched(p) ==
    /\ StageView = pre[p].stage
    /\ tempFile[p] = pre[p].temp

\* the version a sidecar content identifies, -1 when it identifies none
TokenVer(s) == IF s.k \in {ETAG, LAST_MODIFIED} THEN s.ver ELSE -1

\* the oldest version of which the live dataset holds data, -1 when it holds none
LiveVer ==
    IF ~live.exists \/ Len(live.data) = 0 THEN -1
    ELSE CHOOSE v \in -1..MaxVer :
           /\ \E i \in 1..Len(live.data) : live.data[i].v = v
           /\ \A i \in 1..Len(live.data) : live.data[i].v >= v

TokensNotNewer == TokenVer(etagFile) <= LiveVer /\ TokenVer(lmFile) <= LiveVer

\* vehicles.csv is there and holds one whole entry of one archive
LiveComplete ==
    /\ live.exists
    /\ \E v \in 0..MaxVer, n \in StageNames : live.data = EntryData(v, n)

\* nothing out of the ordinary: no failure of the environment, an ETag that
\* fits the read buffer, no answer other than 200 and 304 to a call in progress
PlainRun ==
    /\ faults = 0
    /\ remote.etagLen <= ReadLimit
    /\ \A p \in Procs : response[p].code \in {0, 200, 304}

\* the entry the archive selection rule names: the only entry, or vehicles.csv
Selected(names) == IF Len(names) = 1 THEN names[1] ELSE CANONICAL

\* C1: when the remote answers 304 the call returns False without raising, and
\* vehicles.csv, both sidecars and the staging locations are as they were
\* before the call.
C1_NotModifiedNoWrites ==
    \A p \in Procs :
        (Done(p) /\ response[p].code = 304) =>
            /\ result[p] = "False"
            /\ exc[p] = "none"
            /\ DiskUntouched(p)
            /\ StagingUntouched(p)

C1_Witness ==
    \E p \in Procs :
        /\ Done(p) /\ response[p].code = 304 /\ result[p] = "False"
        /\ pre[p].live.exists /\ pre[p].etag.k = ETAG

\* C2: a call that follows a call that returned, with the remote unchanged
\* since that call's request, with its sidecars read without an I/O error and
\* answered by the remote with 200 or 304, returns False.
C2_SecondCallReturnsFalse ==
    \A p \in Procs :
        ( /\ Done(p) /\ result[p] # "crashed"
          /\ hist[p].alone /\ hist[p].prev \in {"True", "False"}
          /\ hist[p].stable /\ ~hist[p].loadFault
          /\ response[p].code \in {200, 304} ) =>
            result[p] = "False"

\* C3: when the call returns True after a 200 response, vehicles.csv holds the
\* selected entry of that response's archive and the sidecars hold that
\* response's ETag and Last-Modified headers.
C3_SyncedEqualsResponse ==
    \A p \in Procs :
        (Done(p) /\ result[p] = "True" /\ response[p].code = 200) =>
            /\ live = File(EntryData(response[p].ver, Selected(response[p].archive.names)))
            /\ etagFile = response[p].etagHdr
            /\ lmFile = response[p].lmHdr

C3_Witness ==
    \E p \in Procs :
        /\ Done(p) /\ result[p] = "True" /\ response[p].code = 200
        /\ response[p].ver > 0
        /\ Len(response[p].archive.names) > 1
        /\ pre[p].live.exists

\* C4: with calls that follow one another, in every state, the states left by a
\* crash or a failure included, no sidecar identifies a version newer than the
\* version vehicles.csv holds.
C4_TokensNeverNewerThanData == TokensNotNewer

C4_Witness ==
    \E p \in Procs :
        /\ Done(p) /\ result[p] = "crashed" /\ renamed[p]
        /\ TokenVer(etagFile) < LiveVer
        /\ TokenVer(lmFile) < LiveVer

\* C5: once a sync has succeeded, with calls running at the same time,
\* vehicles.csv is at every instant there and whole: never missing, empty,
\* truncated or mixed.  (Stated for the runs in which nothing is out of
\* the ordinary: the claim fails already there.)
C5_LiveAlwaysComplete == (everSynced /\ PlainRun) => LiveComplete

\* C6: when calls that ran at the same time have all ended, no sidecar
\* identifies a version newer than the version vehicles.csv holds.  (Stated for
\* the runs in which nothing is out of the ordinary: the claim fails already
\* there.)
C6_RaceEndsConsistent ==
    ((\A p \in Procs : pc[p] \in {"idle", "done"}) /\ PlainRun) => TokensNotNewer

\* C7: for every answer whose status is neither 200 nor 304, and when the
\* transport fails, the call raises and vehicles.csv and both sidecars are as
\* they were before the call.
C7_OtherStatusFails ==
    \A p \in Procs :
        (Done(p) /\ result[p] # "crashed" /\ response[p].code \notin {200, 304}) =>
            /\ result[p] = "raised"
            /\ DiskUntouched(p)

\* C8: a call that fails at or before the rename leaves vehicles.csv and both
\* sidecars as they were before the call.
C8_FailureBeforeRenameNoWrites ==
    \A p \in Procs :
        (Done(p) /\ result[p] = "raised" /\ ~renamed[p]) => DiskUntouched(p)

C8_Witness ==
    \E p \in Procs :
        /\ Done(p) /\ result[p] = "raised" /\ ~renamed[p]
        /\ exc[p] = "OSError" /\ name[p] # "none"
        /\ pre[p].live.exists

\* C9: when the rename has succeeded and writing a sidecar then fails, the call
\* returns True.
C9_TokenFailureStillSuccess ==
    \A p \in Procs :
        (Done(p) /\ renamed[p] /\ exc[p] = "IOError") => result[p] = "True"

\* C10: no call ends with the error of a cleanup step: a failure of rmtree or
\* of unlink neither makes a successful sync raise nor replaces the error of
\* an earlier step.
C10_CleanupNeverDecidesOutcome ==
    \A p \in Procs : Done(p) => exc[p] # "OSError(unlink)"

\* the archive selection rule accepts the entry list
Acceptable(names) ==
    Len(names) = 1 \/ (Len(names) > 1 /\ \E i \in 1..Len(names) : names[i] = CANONICAL)

\* the call got as far as opening the archive
ReachedArchive(p) == name[p] # "none" \/ exc[p] \in {"BadZipfile", "IndexError"}

ProtocolString(t) ==
    CASE t = 0          -> <<3, 1, 1, 1970, 0, 0, 0>>
      [] t = 86399      -> <<3, 1, 1, 1970, 23, 59, 59>>
      [] t = 951867000  -> <<1, 29, 2, 2000, 23, 30, 0>>
      [] t = 1451606399 -> <<3, 31, 12, 2015, 23, 59, 59>>
      [] t = 1456791300 -> <<1, 1, 3, 2016, 0, 15, 0>>
      [] t = 1467374400 -> <<4, 1, 7, 2016, 12, 0, 0>>
      [] t = 2100000000 -> <<4, 18, 7, 2036, 13, 20, 0>>

\* C13: whatever form one instant is handed over in (the protocol string, int,
\* long or float epoch seconds, a struct_time, a naive datetime in UTC, an
\* aware datetime in any zone), the request carries an If-Modified-Since
\* header and its value is the protocol string of that instant.
C13_SameInstantSameHeader ==
    (request.built /\ given.instant >= 0) =>
        request.ims = Str(ProtocolString(given.instant))

C13_Witness ==
    /\ request.built
    /\ given.instant = 951867000
    /\ given.last_modified.type = "datetime"
    /\ given.last_modified.v[7] = 1
    /\ given.last_modified.v[8] = ZoneStep
    /\ given.last_modified.v[2] = 3
    /\ request.ims = Str(<<1, 29, 2, 2000, 23, 30, 0>>)

\* C14: calls that run at the same time stage in places of their own: no two
\* of them have the same staging file open, and none fails because its staged
\* file is gone.  (Stated for the runs in which nothing is out of the
\* ordinary, where os.rename can only fail through another call.)
C14_StagingIsPrivate ==
    PlainRun =>
        /\ \A p, q \in Procs :
             (p # q /\ fd[p].at \in StageNames /\ fd[q].at \in StageNames) =>
                 fd[p].at # fd[q].at
        /\ \A p \in Procs : exc[p] # "OSError"

\* the call is past the loading of both sidecars and has not been killed
Loaded(p) ==
    /\ hist[p].alone
    /\ pc[p] \notin {"idle", "load_etag", "load_lm"}
    /\ result[p] # "crashed"

\* C15: each sidecar on its own: when it is missing or cannot be read its
\* token is None, otherwise the token is what the file holds (up to the read
\* limit), whatever happened to the other sidecar; the call does not end
\* before the request is issued; and a request made with both tokens None is
\* never answered 304.
C15_LoadNeverFailsTheSync ==
    \A p \in Procs :
        Loaded(p) =>
            /\ etag[p] = IF pre[p].etag = NoFile \/ hist[p].etagFault
                         THEN None ELSE Read(pre[p].etag, ReadLimit)
            /\ last_modified[p] = IF pre[p].lm = NoFile \/ hist[p].lmFault
                                  THEN None ELSE Read(pre[p].lm, ReadLimit)
            /\ (Done(p) => response[p] # NoResponse \/ exc[p] = "URLError")
            /\ (etag[p] = None /\ last_modified[p] = None =>
                   /\ RequestHeaders(etag[p], last_modified[p]) = [inm |-> None, ims |-> None]
                   /\ response[p].code # 304)

C15_Witness ==
    \E p \in Procs :
        /\ Done(p) /\ Loaded(p) /\ hist[p].etagFault
        /\ etag[p] = None /\ last_modified[p] = pre[p].lm
        /\ pre[p].etag.k = ETAG /\ pre[p].lm.k = LAST_MODIFIED
        /\ response[p].code = 304 /\ result[p] = "False"

\* C16: the request carries If-None-Match exactly when the etag is a string
\* that is not empty, and then with the etag as its value; it carries
\* If-Modified-Since exactly when last_modified is neither None nor the empty
\* string; neither depends on the other; User-Agent is always there.
C16_HeadersIndependent ==
    request.built =>
        /\ request.inm = IF given.etag.type = "str" /\ given.etag.v # <<>>
                         THEN given.etag ELSE PyNone
        /\ (request.ims # PyNone) <=>
               (given.last_modified # PyNone /\ given.last_modified # Str(<<>>))
        /\ request.ua = Str(UserAgent)

C16_Witness ==
    /\ request.built
    /\ given.etag = Str(<<>>) /\ request.inm = PyNone
    /\ given.last_modified.type = "int" /\ given.instant = 0
    /\ request.ims # PyNone
    /\ request.ua # PyNone

\* C17: a call that follows a call that returned True, and that reads its
\* sidecars without an I/O error, loads exactly what the sidecars hold and
\* sends it unchanged as If-None-Match and If-Modified-Since.
C17_SidecarRoundTrip ==
    \A p \in Procs :
        (Loaded(p) /\ hist[p].prev = "True" /\ ~hist[p].loadFault) =>
            /\ etag[p] = pre[p].etag
            /\ last_modified[p] = pre[p].lm
            /\ RequestHeaders(etag[p], last_modified[p]) =
                   [inm |-> pre[p].etag, ims |-> pre[p].lm]

\* C18: when the call that follows a crashed call ends, having run to its end
\* against a remote that answered 200 or 304 and did not change, vehicles.csv
\* holds the remote's current dataset and both sidecars hold the remote's
\* current tokens.
C18_RecoveryConverges ==
    \A p \in Procs :
        ( /\ Done(p) /\ hist[p].alone /\ hist[p].prev = "crashed"
          /\ result[p] \in {"True", "False"}
          /\ response[p].code \in {200, 304}
          /\ response[p].ver = remote.ver ) =>
            /\ live = File(EntryData(remote.ver, Selected(remote.archive.names)))
            /\ etagFile = EtagOf(remote)
            /\ lmFile = LmOf(remote)

\* C19: a 200 response without an ETag header or without a Last-Modified
\* header makes the call raise KeyError with no staging file made and with
\* vehicles.csv and both sidecars as they were.
C19_MissingHeaderFailsEarly ==
    \A p \in Procs :
        ( /\ Done(p) /\ hist[p].alone /\ result[p] # "crashed"
          /\ response[p].code = 200
          /\ (response[p].etagHdr = None \/ response[p].lmHdr = None) ) =>
            /\ result[p] = "raised"
            /\ exc[p] = "KeyError"
            /\ DiskUntouched(p)
            /\ StagingUntouched(p)

C19_Witness ==
    \E p \in Procs :
        /\ Done(p) /\ hist[p].alone /\ result[p] = "raised" /\ exc[p] = "KeyError"
        /\ response[p].code = 200 /\ response[p].lmHdr = None
        /\ pre[p].live.exists /\ live = pre[p].live

====
